---- MODULE Spec2Model ----
(***************************************************************************)
(* Model of import_wamit_gdf_operator (src/gdf-import.py), the line loop   *)
(* that reads a WAMIT Geometric Data File into vertices and faces.         *)
(*                                                                         *)
(* A file is a sequence of lines, a line is the sequence of its            *)
(* whitespace separated tokens (lines[i].strip().split()), a token is a    *)
(* string.  Python floats are represented exactly as integers counting     *)
(* hundred-thousandths (1.0 is 100000, 9.80665 is 980665).                 *)
(***************************************************************************)
EXTENDS Integers, Sequences, FiniteSets, TLC

VARIABLES lines, i, in_header, ulen, grav, isx, isy, npan,
          vertices, faces, mesh, modifiers, use_axis, scale, pc

vars == <<lines, i, in_header, ulen, grav, isx, isy, npan,
          vertices, faces, mesh, modifiers, use_axis, scale, pc>>

(* ------------------------------ bounds --------------------------------- *)

\* Longest file of the free family (any line of FreePool at any position).
MaxLines == 3

\* Most panels of a file of the grammar family.
MaxPanels == 2

(* ------------------------- float(value) -------------------------------- *)

FixedPoint(units, frac) == units * 100000 + frac

\* The tokens of the model that float() accepts, with the value it returns.
\* Different spellings of one number ("1", "1.0", "1.000000") convert to the
\* same float.
FloatTable ==
    [t \in {"0", "1", "2", "3", "4", "5", "6", "7", "8", "9", "10", "11", "12"} |->
        CASE t = "0" -> FixedPoint(0, 0)   [] t = "1" -> FixedPoint(1, 0)
          [] t = "2" -> FixedPoint(2, 0)   [] t = "3" -> FixedPoint(3, 0)
          [] t = "4" -> FixedPoint(4, 0)   [] t = "5" -> FixedPoint(5, 0)
          [] t = "6" -> FixedPoint(6, 0)   [] t = "7" -> FixedPoint(7, 0)
          [] t = "8" -> FixedPoint(8, 0)   [] t = "9" -> FixedPoint(9, 0)
          [] t = "10" -> FixedPoint(10, 0) [] t = "11" -> FixedPoint(11, 0)
          [] t = "12" -> FixedPoint(12, 0)]
    @@ [t \in {"1.0", "1.000000"} |-> FixedPoint(1, 0)]
    @@ [t \in {"9.80665"} |-> FixedPoint(9, 80665)]
    @@ [t \in {"-7.500000", "-6.500000", "-5.500000", "-4.500000",
               "-3.500000", "-2.500000", "-1.500000", "-0.500000"} |->
        CASE t = "-7.500000" -> 0 - FixedPoint(7, 50000)
          [] t = "-6.500000" -> 0 - FixedPoint(6, 50000)
          [] t = "-5.500000" -> 0 - FixedPoint(5, 50000)
          [] t = "-4.500000" -> 0 - FixedPoint(4, 50000)
          [] t = "-3.500000" -> 0 - FixedPoint(3, 50000)
          [] t = "-2.500000" -> 0 - FixedPoint(2, 50000)
          [] t = "-1.500000" -> 0 - FixedPoint(1, 50000)
          [] t = "-0.500000" -> 0 - FixedPoint(0, 50000)]

\* float(value) returns; otherwise it raises ValueError.
CanFloat(value) == value \in DOMAIN FloatTable

Float(value) == FloatTable[value]

(* --------------------------- list helpers ------------------------------ *)

\* keyword in words
Contains(words, keyword) == \E k \in 1..Len(words) : words[k] = keyword

\* words.index(keyword): the 0-based position of the first occurrence.
ListIndex(words, keyword) ==
    (CHOOSE k \in 1..Len(words) :
        /\ words[k] = keyword
        /\ \A m \in 1..(k - 1) : words[m] # keyword) - 1

\* words[idx] with Python's indexing: 0-based, a negative idx counts from the end.
PyGet(words, idx) == IF idx < 0 THEN words[Len(words) + idx + 1] ELSE words[idx + 1]

keywords == <<"ULEN", "GRAV", "ISX", "ISY", "NPAN">>

\* valueindex = index - (floor(len(words)/2))
ValueIndexShifted(index, n) == index - (n \div 2) + 1

ValueIndex(index, n) == index - (n \div 2)

(* ------------------------------ inputs --------------------------------- *)

\* The panel lines of the example file of the source comment.
ExampleX == <<"-7.500000", "-6.500000", "-5.500000", "-4.500000",
              "-3.500000", "-2.500000", "-1.500000", "-0.500000">>

ExamplePanel(k) ==
    <<ExampleX[k],     "-2.500000", "1.000000", ExampleX[k + 1], "-2.500000", "1.000000",
      ExampleX[k + 1], "-1.500000", "1.000000", ExampleX[k],     "-1.500000", "1.000000">>

\* The example file of the source comment: a header, the labelled scale and
\* symmetry lines, a blank line, seven panel lines.
ExampleFile ==
    << <<"1", "body", "structure">>,
       <<"1", "9.80665", "ULEN", "GRAV">>,
       <<"0", "0", "ISX", "ISY">>,
       <<>> >>
    \o [k \in 1..7 |-> ExamplePanel(k)]

Blank == <<>>
HeaderText == <<"1", "body", "structure">>
HeaderOneWord == <<"hull">>
HeaderWithLabel == <<"barge", "with", "ULEN", "10">>
ScalePlain == <<"1", "9.80665">>
ScaleLabelled == <<"1", "9.80665", "ULEN", "GRAV">>
ScaleBad == <<"x", "9.80665", "ULEN", "GRAV">>
ScaleRepeated == <<"1", "2", "ULEN", "ULEN">>
SymPlain == <<"0", "0">>
SymPlainTwo == <<"2", "0">>
SymLabelled == <<"1.0", "0", "ISX", "ISY">>
SymLabelledTwo == <<"2", "0", "ISX", "ISY">>
CountPlain == <<"2">>
CountLabelled == <<"2", "NPAN">>
ThreeLabelled == <<"0", "1", "3", "ISY", "ISX", "NPAN">>
LabelFirst == <<"GRAV", "7">>
PanelQuad == <<"1", "2", "3", "4", "5", "6", "7", "8", "9", "10", "11", "12">>
PanelTriangle == <<"0", "0", "0", "1", "0", "0", "1", "0", "0", "0", "1", "0">>
PanelBad == <<"1", "2", "3", "4", "abc", "6", "7", "8", "9", "10", "11", "12">>

HeaderPool == {HeaderText, HeaderOneWord, HeaderWithLabel}
ScalePool == {ScalePlain, ScaleLabelled}
SymPool == {SymPlain, SymPlainTwo, SymLabelled, SymLabelledTwo}
CountPool == {CountPlain, CountLabelled, Blank}
PanelPool == {PanelQuad, PanelTriangle, PanelBad}
FreePool == {Blank, HeaderOneWord, ScaleLabelled, ScaleBad, ScaleRepeated,
             ThreeLabelled, LabelFirst, PanelQuad, PanelBad}

\* How many tokens of a panel go on one line: all twelve, four lines of three,
\* lines of five, five and two.
Widths == {12, 3, 5}

Min(a, b) == IF a < b THEN a ELSE b

\* The 12 tokens of a panel written on lines of w tokens.
SplitPanel(panel, w) ==
    [n \in 1..((Len(panel) + w - 1) \div w) |->
        SubSeq(panel, (n - 1) * w + 1, Min(n * w, Len(panel)))]

RECURSIVE PanelLines(_, _)
PanelLines(panels, w) ==
    IF panels = <<>> THEN <<>>
    ELSE SplitPanel(Head(panels), w) \o PanelLines(Tail(panels), w)

SeqsUpTo(S, n) == UNION {[1..m -> S] : m \in 0..n}

\* Files that follow the format: header, scale, symmetry, count, panels.
GrammarInputs ==
    {<<h, s, y, c>> \o PanelLines(ps, w) :
        h \in HeaderPool, s \in ScalePool, y \in SymPool, c \in CountPool,
        ps \in SeqsUpTo(PanelPool, MaxPanels), w \in Widths}

\* Files with any line at any place.
FreeInputs == SeqsUpTo(FreePool, MaxLines)

Inputs == GrammarInputs \cup FreeInputs \cup {ExampleFile}

\* The state when the loop starts: lines = file.readlines(), the defaults,
\* the empty mesh from mesh.from_pydata([], [], []), the new object's scale
\* (1, 1, 1) until obj.scale is assigned.
Init ==
    /\ lines \in Inputs
    /\ i = 0
    /\ in_header = TRUE
    /\ ulen = 0 /\ grav = 0 /\ isx = 0 /\ isy = 0 /\ npan = 0
    /\ vertices = <<>>
    /\ faces = <<>>
    /\ mesh = [vertices |-> <<>>, faces |-> <<>>]
    /\ modifiers = 0
    /\ use_axis = {}
    /\ scale = <<FixedPoint(1, 0), FixedPoint(1, 0), FixedPoint(1, 0)>>
    /\ pc = "loop"

(* --------------------------- the line loop ----------------------------- *)

\* if in_header:
InHeaderBranchAlways(flag) == TRUE

InHeaderBranch(flag) == flag

\* if len(words) == 1: the line that ends the header
IsEndOfHeader(words) == Len(words) = 1

\* if len(words) == 12: a panel line
IsPanelLine(words) == Len(words) = 12

\* One turn of "for keyword in keywords" on a header line.  st holds the five
\* fields and whether float() has raised; once it has, the loop is over.
KeywordStep(words, keyword, st) ==
    IF st.raised \/ ~Contains(words, keyword) THEN st
    ELSE LET index == ListIndex(words, keyword)
             valueindex == ValueIndex(index, Len(words))
             value == PyGet(words, valueindex)
         IN  IF ~CanFloat(value) THEN [st EXCEPT !.raised = TRUE]
             ELSE CASE keyword = "ULEN" -> [st EXCEPT !.ulen = Float(value)]
                    [] keyword = "GRAV" -> [st EXCEPT !.grav = Float(value)]
                    [] keyword = "ISX"  -> [st EXCEPT !.isx = Float(value)]
                    [] keyword = "ISY"  -> [st EXCEPT !.isy = Float(value)]
                    [] keyword = "NPAN" -> [st EXCEPT !.npan = Float(value)]

RECURSIVE ScanKeywords(_, _, _)
ScanKeywords(words, k, st) ==
    IF k > Len(keywords) THEN st
    ELSE ScanKeywords(words, k + 1, KeywordStep(words, keywords[k], st))

\* [(float(words[j]), float(words[j+1]), float(words[j+2])) for j in range(0, 12, 3)]
RECURSIVE DropRepeats(_)
DropRepeats(vs) ==
    IF Len(vs) < 2 THEN vs
    ELSE IF vs[1] = vs[2] THEN DropRepeats(Tail(vs))
         ELSE <<vs[1]>> \o DropRepeats(Tail(vs))

PanelVerticesMerged(words) ==
    DropRepeats([j \in 1..4 |-> <<Float(words[3 * j - 2]), Float(words[3 * j - 1]),
                                  Float(words[3 * j])>>])

PanelVertices(words) ==
    [j \in 1..4 |-> <<Float(words[3 * j - 2]), Float(words[3 * j - 1]), Float(words[3 * j])>>]

\* [k for k in range(len(vertices) - 4, len(vertices))]
NewFace(vs) == [k \in 1..4 |-> Len(vs) - 4 + (k - 1)]

CanFloatAll(words) == \A k \in 1..Len(words) : CanFloat(words[k])

words_i == lines[i + 1]

InLoop == pc = "loop" /\ i < Len(lines)

\* len(words) == 1 in the header: "End of header", continue
EndOfHeader ==
    /\ InLoop
    /\ InHeaderBranch(in_header)
    /\ IsEndOfHeader(words_i)
    /\ in_header' = FALSE
    /\ i' = i + 1
    /\ UNCHANGED <<lines, ulen, grav, isx, isy, npan, vertices, faces, mesh,
                   modifiers, use_axis, scale, pc>>

\* any other line in the header: the keyword loop
HeaderLine ==
    /\ InLoop
    /\ InHeaderBranch(in_header)
    /\ ~IsEndOfHeader(words_i)
    /\ LET st == ScanKeywords(words_i, 1,
                    [ulen |-> ulen, grav |-> grav, isx |-> isx, isy |-> isy,
                     npan |-> npan, raised |-> FALSE])
       IN  /\ ulen' = st.ulen
           /\ grav' = st.grav
           /\ isx' = st.isx
           /\ isy' = st.isy
           /\ npan' = st.npan
           /\ IF st.raised
              THEN pc' = "raised" /\ i' = i
              ELSE pc' = pc /\ i' = i + 1
    /\ UNCHANGED <<lines, in_header, vertices, faces, mesh, modifiers, use_axis, scale>>

\* a line of 12 words after the header: one panel
PanelLine ==
    /\ InLoop
    /\ ~InHeaderBranch(in_header)
    /\ IsPanelLine(words_i)
    /\ IF CanFloatAll(words_i)
       THEN /\ vertices' = vertices \o PanelVertices(words_i)
            /\ faces' = Append(faces, NewFace(vertices'))
            /\ i' = i + 1
            /\ pc' = pc
       ELSE /\ pc' = "raised"
            /\ UNCHANGED <<vertices, faces, i>>
    /\ UNCHANGED <<lines, in_header, ulen, grav, isx, isy, npan, mesh,
                   modifiers, use_axis, scale>>

\* any other line after the header: nothing happens
OtherLine ==
    /\ InLoop
    /\ ~InHeaderBranch(in_header)
    /\ ~IsPanelLine(words_i)
    /\ i' = i + 1
    /\ UNCHANGED <<lines, in_header, ulen, grav, isx, isy, npan, vertices, faces,
                   mesh, modifiers, use_axis, scale, pc>>

\* after the loop: the mirror modifiers, mesh.from_pydata(vertices, [], faces),
\* obj.scale
Finish ==
    /\ pc = "loop"
    /\ i = Len(lines)
    /\ modifiers' = modifiers
                    + (IF isx = FixedPoint(1, 0) THEN 1 ELSE 0)
                    + (IF isy = FixedPoint(1, 0) THEN 1 ELSE 0)
    /\ use_axis' = use_axis \cup (IF isx = FixedPoint(1, 0) THEN {0} ELSE {})
                            \cup (IF isy = FixedPoint(1, 0) THEN {1} ELSE {})
    /\ mesh' = [vertices |-> vertices, faces |-> faces]
    /\ scale' = <<ulen, ulen, ulen>>
    /\ pc' = "done"
    /\ UNCHANGED <<lines, i, in_header, ulen, grav, isx, isy, npan, vertices, faces>>

Next == EndOfHeader \/ HeaderLine \/ PanelLine \/ OtherLine \/ Finish

Spec == Init /\ [][Next]_vars

(* ------------------------- shapes of input lines ----------------------- *)

\* A line of exactly n tokens that float() accepts.
IsNumericLine(words, n) == Len(words) = n /\ CanFloatAll(words)

\* Two numbers, alone or followed by the two labels a and b.
IsPairLine(words, a, b) ==
    \/ IsNumericLine(words, 2)
    \/ /\ Len(words) = 4
       /\ CanFloat(words[1]) /\ CanFloat(words[2])
       /\ words[3] = a /\ words[4] = b

IsLabelledPairLine(words, a, b) == Len(words) = 4 /\ IsPairLine(words, a, b)

RECURSIVE Flatten(_)
Flatten(ls) == IF ls = <<>> THEN <<>> ELSE Head(ls) \o Flatten(Tail(ls))

\* The vertex that tokens 3m-2, 3m-1, 3m of a token list stand for.
VertexAt(tokens, m) ==
    <<Float(tokens[3 * m - 2]), Float(tokens[3 * m - 1]), Float(tokens[3 * m])>>

HasBlank(ls) == \E k \in 1..Len(ls) : ls[k] = <<>>

FirstBlank(ls) ==
    CHOOSE k \in 1..Len(ls) : ls[k] = <<>> /\ \A m \in 1..(k - 1) : ls[m] # <<>>

(* ------------------------------- C1 ------------------------------------ *)

C1Input ==
    /\ Len(lines) >= 4
    /\ IsPairLine(lines[2], "ULEN", "GRAV")
    /\ IsPairLine(lines[3], "ISX", "ISY")
    /\ Len(lines[4]) = 1
    /\ \A k \in 5..Len(lines) : IsNumericLine(lines[k], 12)

C1Result ==
    LET N == Len(lines) - 4
    IN  /\ Len(faces) = N
        /\ Len(vertices) = 4 * N
        /\ \A k \in 1..N : \A j \in 1..4 :
              vertices[4 * (k - 1) + j] = VertexAt(lines[4 + k], j)
        /\ mesh = [vertices |-> vertices, faces |-> faces]

\* C1: for a file made of a header line, a scale line, a symmetry line, a
\* one-token count line and N lines of 12 numbers, the import completes and
\* holds exactly N panels, the k-th being the 12 numbers of the k-th panel
\* line taken three at a time, in file order.
C1_PanelsInFileOrder ==
    C1Input => /\ pc # "raised"
               /\ pc = "done" => C1Result

\* The same statement for headers that hold none of the five labels.
PanelsInFileOrderPlainHeader ==
    (C1Input /\ \A k \in 1..Len(keywords) : ~Contains(lines[1], keywords[k]))
        => /\ pc # "raised"
           /\ pc = "done" => C1Result

(* ------------------------------- C2 ------------------------------------ *)

\* C2: when the second line is exactly two numbers a b, without labels, the
\* finished import has ulen = a and grav = b (stated for a first line of
\* several tokens, after which the loop is still in the header at line 2).
C2_ScaleByPosition ==
    (pc = "done" /\ Len(lines) >= 2 /\ Len(lines[1]) > 1 /\ IsNumericLine(lines[2], 2))
        => /\ ulen = Float(lines[2][1])
           /\ grav = Float(lines[2][2])

(* ------------------------------- C3 ------------------------------------ *)

\* C3: the header is the first line whatever its token count: after a header
\* of one token the scale is still read from line 2 and the symmetry from
\* line 3 (stated for lines that carry their labels, the form the loop reads
\* after a header of several tokens).
C3_HeaderIsOneLine ==
    (/\ pc = "done"
     /\ Len(lines) >= 4
     /\ Len(lines[1]) = 1
     /\ IsLabelledPairLine(lines[2], "ULEN", "GRAV")
     /\ IsLabelledPairLine(lines[3], "ISX", "ISY"))
        => /\ ulen = Float(lines[2][1])
           /\ grav = Float(lines[2][2])
           /\ isx = Float(lines[3][1])
           /\ isy = Float(lines[3][2])

\* After a header of several tokens without labels the labelled lines 2 and 3
\* are read.
LabelledLinesReadAfterLongHeader ==
    (/\ pc = "done"
     /\ Len(lines) >= 4
     /\ lines[1] = HeaderText
     /\ IsLabelledPairLine(lines[2], "ULEN", "GRAV")
     /\ IsLabelledPairLine(lines[3], "ISX", "ISY"))
        => /\ ulen = Float(lines[2][1])
           /\ grav = Float(lines[2][2])
           /\ isx = Float(lines[3][1])
           /\ isy = Float(lines[3][2])

(* ------------------------------- C4 ------------------------------------ *)

\* The panel section starts after line 4, for the loop as for the format:
\* line 4 is the first line of one token, and every token after it is a number.
C4Input ==
    /\ Len(lines) >= 4
    /\ Len(lines[4]) = 1
    /\ \A k \in 1..3 : Len(lines[k]) # 1
    /\ CanFloatAll(Flatten(SubSeq(lines, 5, Len(lines))))
    /\ Len(Flatten(SubSeq(lines, 5, Len(lines)))) % 12 = 0

\* C4: the tokens of the panel section are taken twelve at a time whatever the
\* line breaks between them: the finished import holds one panel for every
\* group of 12 consecutive tokens.
C4_LineBreaksIgnored ==
    (pc = "done" /\ C4Input)
        => LET tokens == Flatten(SubSeq(lines, 5, Len(lines)))
           IN  /\ Len(faces) = Len(tokens) \div 12
               /\ Len(vertices) = Len(tokens) \div 3
               /\ \A m \in 1..Len(vertices) : vertices[m] = VertexAt(tokens, m)

(* ------------------------------- C5 ------------------------------------ *)

\* C5: once the ISX or ISY read from the file is a number other than 0 or 1,
\* the import does not finish: no vertices or faces reach the mesh.
C5_BadSymmetryIsFatal ==
    (\/ isx \notin {FixedPoint(0, 0), FixedPoint(1, 0)}
     \/ isy \notin {FixedPoint(0, 0), FixedPoint(1, 0)})
        => /\ pc # "done"
           /\ mesh = [vertices |-> <<>>, faces |-> <<>>]

(* ------------------------------- C6 ------------------------------------ *)

\* C6: the import never raises, whatever the text of the file.
C6_NeverRaises == pc # "raised"

(* ------------------------------- C7 ------------------------------------ *)

\* C7: the header lasts until the first blank line: every line of 12 numbers
\* after the first blank line is a panel of the finished import, and the
\* example file of the source comment gives 7 panels.
C7_BlankLineEndsHeader ==
    /\ (pc = "done" /\ HasBlank(lines))
          => Len(faces) >= Cardinality({k \in (FirstBlank(lines) + 1)..Len(lines) :
                                            IsNumericLine(lines[k], 12)})
    /\ (pc = "done" /\ lines = ExampleFile) => Len(faces) = 7

(* ------------------------------- C8 ------------------------------------ *)

KeywordSet == {keywords[k] : k \in 1..Len(keywords)}

\* n numbers followed by n labels.
IsValueLabelLine(words) ==
    LET n == Len(words) \div 2
    IN  /\ Len(words) >= 2
        /\ Len(words) = 2 * n
        /\ \A j \in 1..n : CanFloat(words[j]) /\ words[n + j] \in KeywordSet

DistinctLabels(words) ==
    LET n == Len(words) \div 2
    IN  \A a, b \in (n + 1)..(2 * n) : a # b => words[a] # words[b]

\* The five fields by their label.
FieldOf ==
    [kw \in KeywordSet |->
        CASE kw = "ULEN" -> ulen
          [] kw = "GRAV" -> grav
          [] kw = "ISX"  -> isx
          [] kw = "ISY"  -> isy
          [] kw = "NPAN" -> npan]

\* The step gives the field of the j-th label the j-th number and leaves the
\* fields without a label alone.
LabelLookupEffect(words) ==
    LET n == Len(words) \div 2
    IN  /\ pc' = "loop"
        /\ i' = i + 1
        /\ \A j \in 1..n : FieldOf'[words[n + j]] = Float(words[j])
        /\ \A kw \in KeywordSet : ~Contains(words, kw) => FieldOf'[kw] = FieldOf[kw]

\* C8 as stated: in the header, a line of n numbers followed by n labels,
\* repeated labels allowed, gives the field of the i-th label the i-th number.
C8_LabelLookup ==
    [][(InLoop /\ in_header /\ IsValueLabelLine(words_i))
          => LabelLookupEffect(words_i)]_vars

\* C8 amended: in the header, a line of n numbers followed by n pairwise
\* different labels gives the field of the i-th label the i-th number; the
\* fields whose label is absent keep their value.
C8_LabelLookupDistinct ==
    [][(InLoop /\ in_header /\ IsValueLabelLine(words_i) /\ DistinctLabels(words_i))
          => LabelLookupEffect(words_i)]_vars

\* A header line of three numbers and three labels, not in the order of the
\* keyword list, has just been read.
C8_Witness ==
    /\ pc = "loop" /\ in_header /\ i >= 1
    /\ lines[i] = ThreeLabelled
    /\ isy = FixedPoint(0, 0) /\ isx = FixedPoint(1, 0) /\ npan = FixedPoint(3, 0)
    /\ ulen = 0 /\ grav = 0

(* ------------------------------- C9 ------------------------------------ *)

\* C9: after any prefix of the lines, there are exactly 4 vertices per face,
\* face k is [4k, 4k+1, 4k+2, 4k+3] (k from 0) and each index is one of an
\* existing vertex; a triangle takes 4 entries like any panel.
C9_FourVerticesPerFace ==
    /\ Len(vertices) = 4 * Len(faces)
    /\ \A k \in 1..Len(faces) :
          /\ faces[k] = <<4 * (k - 1), 4 * (k - 1) + 1, 4 * (k - 1) + 2, 4 * (k - 1) + 3>>
          /\ \A j \in 1..4 : faces[k][j] >= 0 /\ faces[k][j] < Len(vertices)

\* A triangle (vertices 2 and 3 coincide) is stored and lines are still to come.
C9_Witness ==
    /\ pc = "loop" /\ i < Len(lines)
    /\ Len(faces) >= 1
    /\ lines[i] = PanelTriangle
    /\ vertices[Len(vertices) - 2] = vertices[Len(vertices) - 1]

(* ------------------------------- C10 ----------------------------------- *)

Fields == <<ulen, grav, isx, isy, npan>>

\* C10: the mode never goes back to the header; after the header no step
\* changes a field; in the header no step adds a vertex or a face; the step
\* that ends the header changes neither.
C10_ModeSwitchesOnce ==
    [][/\ ~in_header => ~in_header' /\ Fields' = Fields
       /\ in_header => vertices' = vertices /\ faces' = faces
       /\ (in_header /\ ~in_header') => Fields' = Fields]_vars

\* A line of 12 numbers was read in the header and a labelled line after it:
\* no vertex was stored and no field was set.
C10_Witness ==
    /\ pc = "loop" /\ ~in_header /\ i = 3
    /\ lines = <<PanelQuad, HeaderOneWord, ScaleLabelled>>
    /\ vertices = <<>> /\ faces = <<>>
    /\ Fields = <<0, 0, 0, 0, 0>>

====
